---- MODULE Spec2Model ----
(***************************************************************************)
(* Model of the IC comic viewer (src/src/comic_viewer.c).                  *)
(*                                                                         *)
(* The file holds two variants of the viewer:                              *)
(*   - the view variant (lines 1..1611): a doubly linked list of ImageView *)
(*     nodes, navigated by next_view/previous_view; specification Spec;    *)
(*   - the page variant (lines 1612..2807): a plain page cursor with the   *)
(*     page-turn animation fields, navigated by next_page/previous_page;   *)
(*     specification SpecPages.                                            *)
(*                                                                         *)
(* Pointers to ImageView nodes are node ids 1..MaxNodes, NULL is 0.        *)
(* malloc hands out ids in increasing order; a node spliced out of the     *)
(* list by the merge handler is never freed by the code and so keeps its   *)
(* id and its stale fields.                                                *)
(***************************************************************************)
EXTENDS Integers, Sequences, FiniteSets, TLC

\* ------------------------------------------------------------------ bounds
\* Largest number of pages of a source the model loads.
MaxPages == 3
\* Number of ImageView allocations available beyond the default views.
MaxSplits == 1
\* Number of rendered frames over which the clock is followed.
MaxTicks == 1
\* Number of navigation commands whose order is remembered in trail.
MaxTrail == 3

\* Largest number of entries of a directory or an archive that is opened.
MaxEntries == 11
\* Largest number of entries of an archive whose pages are extracted.
MaxArchive == 3
\* Number of archive_get_image calls followed on one archive.
MaxGets == 2

\* Widest white margin of the decoded images that are cropped.
MaxMargin == 210
\* Largest width and height of the content of those images.
MaxContent == 102

\* Capacity of the images array: MAX_IMAGES, which is 1000 in the program,
\* scaled to the size of the listings.
MaxImages == 10

\* Longest string given to escape_shell_arg on its own.
MaxArg == 4

MaxNodes == MaxPages + MaxSplits

\* ------------------------------------------------------- program constants
MAX_IMAGES_PER_VIEW == 4
MAX_IMAGES == MaxImages
NULL == 0

Pages == 0..(MaxPages - 1)
NodeIds == 1..MaxNodes

\* ------------------------------------------------------------------- state
VARIABLES
    pc,        \* "init" after comic_viewer_init, "loaded" after
               \* comic_viewer_load, "running" inside the main loop, "exit"
    source,    \* the source on disk: number of pages, archive-backed or not
    fault,     \* the page whose extraction or decoding fails, if any
    ticks,     \* SDL_GetTicks(), in frames
    event,     \* the SDL_Event last dispatched by handle_events
    trail,     \* history: the events dispatched since comic_viewer_run, as
               \* long as they are at most MaxTrail next/previous commands
    viewer,    \* struct ViewerState of the view variant, with the heap of
               \* ImageView nodes in viewer.nodes
    pviewer,   \* the static viewer struct of the page variant
    attempt,   \* the path given to comic_viewer_load: what stat says of it,
               \* the entries of the directory or archive, the step of the
               \* open that fails, and the image_name_compare of the build
    progress,  \* the fractions update_progress was called with, in order
    opened,    \* what comic_viewer_load left: result, source type,
               \* image_count, directory paths, archive handle
    tmpfs,     \* the files in the temporary directory of the archive
    shell,     \* the command lines the last operation ran
    got,       \* the archive_get_image calls so far and the last result
    surface,   \* the decoded SDL_Surface create_texture works on
    crop_rect, \* the crop_rect create_texture stores in the ImageEntry
    arg,       \* the string escape_shell_arg is called with
    buffer     \* the buffer escape_shell_arg allocated: its size and the
               \* bytes written to it, in order

loader_vars == <<attempt, progress, opened, tmpfs, shell, got>>
decoder_vars == <<surface, crop_rect>>
escape_vars == <<arg, buffer>>

vars == <<pc, source, fault, ticks, event, trail, viewer, pviewer,
          loader_vars, decoder_vars, escape_vars>>

NoFault == [page |-> -1, kind |-> "none"]

\* archive_get_image(handle, index, &path): fails for the unextractable page.
archive_get_image(index) == ~(fault.kind = "extract" /\ fault.page = index)

\* image_load_surface(path, options): NULL for the undecodable page.
image_load_surface(index) == ~(fault.kind = "decode" /\ fault.page = index)

\* One ImageEntry: which of its pointers are non-NULL, and the value of
\* options->enhancement_enabled that image_load_surface decoded the texture
\* with (FALSE while there is no texture).
NoImage ==
    [path |-> FALSE, surface |-> FALSE, texture |-> FALSE, enhanced |-> FALSE]

\* ------------------------------------------------------ image cache (both)
\* create_texture: decode, (crop), create the texture. A failed decode
\* stores NULL in surface and leaves texture as it was.
create_texture(m, index) ==
    IF ~image_load_surface(index)
    THEN [m EXCEPT !.images[index].surface = FALSE]
    ELSE [m EXCEPT !.images[index].surface = TRUE,
                   !.images[index].texture = TRUE,
                   !.images[index].enhanced = m.enhancement_enabled]

load_image(m, index) ==
    IF index < 0 \/ index >= m.image_count THEN m
    ELSE IF m.images[index].texture THEN m
    ELSE IF m.archive
         THEN IF archive_get_image(index)
              THEN create_texture([m EXCEPT !.images[index].path = TRUE], index)
              ELSE m
         ELSE create_texture(m, index)

\* The bool that load_image returns.
load_image_ok(m, index) ==
    /\ index >= 0
    /\ index < m.image_count
    /\ load_image(m, index).images[index].texture

unload_image(m, index) ==
    IF index < 0 \/ index >= m.image_count THEN m
    ELSE [m EXCEPT !.images[index].texture = FALSE,
                   !.images[index].enhanced = FALSE,
                   !.images[index].path =
                        IF m.archive THEN FALSE ELSE @]

\* options->enhancement_enabled as get_default_processing_options sets it.
get_default_processing_options == FALSE

\* ----------------------------------------------------------- view list
FreeNode == [image_indices |-> [i \in 1..MAX_IMAGES_PER_VIEW |-> -1],
             count |-> 0, next |-> NULL, prev |-> NULL]

\* create_view_node: the node malloc returns is m.brk + 1.
create_view_node(m, prev_view) ==
    [m EXCEPT !.brk = @ + 1,
              !.nodes[m.brk + 1] =
                  [image_indices |-> [i \in 1..MAX_IMAGES_PER_VIEW |-> -1],
                   count |-> 1, next |-> NULL, prev |-> prev_view]]

RECURSIVE last_node(_, _)
last_node(nodes, current) ==
    IF nodes[current].next = NULL THEN current
    ELSE last_node(nodes, nodes[current].next)

\* append_view with the view_count++ forgotten.
append_view_uncounted(m, view) ==
    IF view = NULL THEN m
    ELSE IF m.first_view = NULL
    THEN [m EXCEPT !.first_view = view,
                   !.current_view_node = view]
    ELSE LET current == last_node(m.nodes, m.first_view)
         IN [m EXCEPT !.nodes[current].next = view,
                      !.nodes[view].prev = current]

append_view(m, view) ==
    IF view = NULL THEN m
    ELSE IF m.first_view = NULL
    THEN [m EXCEPT !.first_view = view,
                   !.current_view_node = view,
                   !.view_count = @ + 1]
    ELSE LET current == last_node(m.nodes, m.first_view)
         IN [m EXCEPT !.nodes[current].next = view,
                      !.nodes[view].prev = current,
                      !.view_count = @ + 1]

RECURSIVE free_from(_, _)
free_from(nodes, current) ==
    IF current = NULL THEN nodes
    ELSE free_from([nodes EXCEPT ![current] = FreeNode], nodes[current].next)

free_all_views(m) ==
    [m EXCEPT !.nodes = free_from(m.nodes, m.first_view),
              !.first_view = NULL,
              !.current_view_node = NULL,
              !.view_count = 0]

RECURSIVE generate_loop(_, _, _)
generate_loop(m, i, prev_view) ==
    IF i >= m.image_count THEN m
    ELSE LET view == m.brk + 1
             m1 == create_view_node(m, prev_view)
             m2 == [m1 EXCEPT !.nodes[view].image_indices[1] = i]
         IN generate_loop(append_view(m2, view), i + 1, view)

generate_default_views(m) ==
    LET m1 == generate_loop([free_all_views(m) EXCEPT !.view_count = 0], 0, NULL)
    IN IF m1.first_view # NULL
       THEN [m1 EXCEPT !.current_view_node = m1.first_view,
                       !.current_view_index = 0]
       ELSE m1

RECURSIVE walk(_, _, _, _)
walk(nodes, current, i, index) ==
    IF i < index /\ current # NULL
    THEN walk(nodes, nodes[current].next, i + 1, index)
    ELSE current

get_view_by_index(m, index) ==
    IF index < 0 THEN NULL ELSE walk(m.nodes, m.first_view, 0, index)

\* set_current_view with the index assignment forgotten.
set_current_view_node_only(m, index) ==
    LET view == get_view_by_index(m, index)
    IN IF view # NULL
       THEN [m EXCEPT !.current_view_node = view]
       ELSE m

set_current_view(m, index) ==
    LET view == get_view_by_index(m, index)
    IN IF view # NULL
       THEN [m EXCEPT !.current_view_node = view,
                      !.current_view_index = index]
       ELSE m

get_current_view(m) == m.current_view_index
get_view_count(m) == m.view_count

\* The page in slot i (0-based, as in the code) of a view node.
slot(m, view, i) == m.nodes[view].image_indices[i + 1]

RECURSIVE unload_slots(_, _, _)
unload_slots(m, view, i) ==
    IF i >= m.nodes[view].count THEN m
    ELSE unload_slots(unload_image(m, slot(m, view, i)), view, i + 1)

\* The loop of view_changed: every slot is loaded, failures are ignored.
RECURSIVE load_slots(_, _, _)
load_slots(m, view, i) ==
    IF i >= m.nodes[view].count THEN m
    ELSE load_slots(load_image(m, slot(m, view, i)), view, i + 1)

\* The loop of load_images_for_view: it returns at the first failure.
RECURSIVE load_slots_until_failure(_, _, _)
load_slots_until_failure(m, view, i) ==
    IF i >= m.nodes[view].count THEN m
    ELSE IF ~load_image_ok(m, slot(m, view, i))
         THEN load_image(m, slot(m, view, i))
         ELSE load_slots_until_failure(load_image(m, slot(m, view, i)), view, i + 1)

unload_images_for_view(m, view_index) ==
    LET view == get_view_by_index(m, view_index)
    IN IF view = NULL THEN m ELSE unload_slots(m, view, 0)

load_images_for_view(m, view_index) ==
    LET view == get_view_by_index(m, view_index)
    IN IF view = NULL THEN m ELSE load_slots_until_failure(m, view, 0)

\* ----------------------------------------------------------- navigation
view_changed(m, old_view_node, new_view_node) ==
    LET m1 == [m EXCEPT !.last_page_change_time = ticks,
                        !.show_progress_indicator = TRUE]
        m2 == IF old_view_node # NULL THEN unload_slots(m1, old_view_node, 0) ELSE m1
    IN IF new_view_node # NULL THEN load_slots(m2, new_view_node, 0) ELSE m2

\* previous_view with the timer reset placed ahead of the boundary test.
previous_view_timer_first(m) ==
    LET m0 == [m EXCEPT !.last_page_change_time = ticks,
                        !.show_progress_indicator = TRUE]
    IN IF \/ m.current_view_node = NULL
          \/ m.nodes[m.current_view_node].prev = NULL
          \/ m.page_turning_in_progress
       THEN m0
       ELSE LET old_view_node == m.current_view_node
                m1 == [m EXCEPT !.current_view_node = m.nodes[old_view_node].prev,
                                !.current_view_index = @ - 1]
            IN view_changed(m1, old_view_node, m1.current_view_node)

previous_view(m) ==
    IF \/ m.current_view_node = NULL
       \/ m.nodes[m.current_view_node].prev = NULL
       \/ m.page_turning_in_progress
    THEN m
    ELSE LET old_view_node == m.current_view_node
             m1 == [m EXCEPT !.current_view_node = m.nodes[old_view_node].prev,
                             !.current_view_index = @ - 1]
         IN view_changed(m1, old_view_node, m1.current_view_node)

\* next_view with the current_view_index++ forgotten.
next_view_index_kept(m) ==
    IF \/ m.current_view_node = NULL
       \/ m.nodes[m.current_view_node].next = NULL
       \/ m.page_turning_in_progress
    THEN m
    ELSE LET old_view_node == m.current_view_node
             m1 == [m EXCEPT !.current_view_node = m.nodes[old_view_node].next]
         IN view_changed(m1, old_view_node, m1.current_view_node)

next_view(m) ==
    IF \/ m.current_view_node = NULL
       \/ m.nodes[m.current_view_node].next = NULL
       \/ m.page_turning_in_progress
    THEN m
    ELSE LET old_view_node == m.current_view_node
             m1 == [m EXCEPT !.current_view_node = m.nodes[old_view_node].next,
                             !.current_view_index = @ + 1]
         IN view_changed(m1, old_view_node, m1.current_view_node)

\* --------------------------------------------------- handle_events (keys)
\* The split with the new node given the first page instead of the second.
SDLK_1_first_page(m) ==
    LET cur == m.current_view_node
    IN IF cur # NULL /\ m.nodes[cur].count = 1 THEN m
       ELSE LET backup_next_view == m.nodes[cur].next
                new == m.brk + 1
                m1 == [m EXCEPT !.nodes[cur].count = 1]
                m2 == create_view_node(m1, cur)
                m3 == [m2 EXCEPT !.nodes[cur].next = new,
                                 !.nodes[new].image_indices[1] = slot(m, cur, 0),
                                 !.nodes[new].next = backup_next_view]
            IN IF backup_next_view # NULL
               THEN [m3 EXCEPT !.nodes[backup_next_view].prev = new]
               ELSE m3

\* The split that leaves the prev link of the following view as it was.
SDLK_1_prev_kept(m) ==
    LET cur == m.current_view_node
    IN IF cur # NULL /\ m.nodes[cur].count = 1 THEN m
       ELSE LET backup_next_view == m.nodes[cur].next
                new == m.brk + 1
                m1 == [m EXCEPT !.nodes[cur].count = 1]
                m2 == create_view_node(m1, cur)
            IN [m2 EXCEPT !.nodes[cur].next = new,
                          !.nodes[new].image_indices[1] = slot(m, cur, 1),
                          !.nodes[new].next = backup_next_view]

\* SDLK_1: split the current view into two single-page views.
SDLK_1(m) ==
    LET cur == m.current_view_node
    IN IF cur # NULL /\ m.nodes[cur].count = 1 THEN m
       ELSE LET backup_next_view == m.nodes[cur].next
                new == m.brk + 1
                m1 == [m EXCEPT !.nodes[cur].count = 1]
                m2 == create_view_node(m1, cur)
                m3 == [m2 EXCEPT !.nodes[cur].next = new,
                                 !.nodes[new].image_indices[1] = slot(m, cur, 1),
                                 !.nodes[new].next = backup_next_view]
            IN IF backup_next_view # NULL
               THEN [m3 EXCEPT !.nodes[backup_next_view].prev = new]
               ELSE m3

\* The merge without the test for a following view: on the last view it
\* still sets count to 2.
SDLK_2_unguarded(m) ==
    LET cur == m.current_view_node
    IN IF cur # NULL /\ m.nodes[cur].count = 2 THEN m
       ELSE IF cur # NULL /\ m.nodes[cur].next = NULL
       THEN [m EXCEPT !.nodes[cur].count = 2]
       ELSE LET next_view_node == m.nodes[cur].next
                second == slot(m, next_view_node, 0)
                m1 == [m EXCEPT !.nodes[cur].count = 2,
                                !.nodes[cur].image_indices[2] = second]
                m2 == IF ~m1.images[second].texture
                      THEN load_image(m1, second) ELSE m1
                after == m.nodes[next_view_node].next
                m3 == [m2 EXCEPT !.nodes[cur].next = after]
            IN IF after # NULL
               THEN [m3 EXCEPT !.nodes[after].prev = cur]
               ELSE m3

\* SDLK_2: merge the following view's first page into the current view.
SDLK_2(m) ==
    LET cur == m.current_view_node
    IN IF cur # NULL /\ m.nodes[cur].count = 2 THEN m
       ELSE IF cur # NULL /\ m.nodes[cur].next # NULL
       THEN LET next_view_node == m.nodes[cur].next
                second == slot(m, next_view_node, 0)
                m1 == [m EXCEPT !.nodes[cur].count = 2,
                                !.nodes[cur].image_indices[2] = second]
                m2 == IF ~m1.images[second].texture
                      THEN load_image(m1, second) ELSE m1
                after == m.nodes[next_view_node].next
                m3 == [m2 EXCEPT !.nodes[cur].next = after]
            IN IF after # NULL
               THEN [m3 EXCEPT !.nodes[after].prev = cur]
               ELSE m3
       ELSE m

RECURSIVE unload_views(_, _, _)
\* for (i = from; i < to; i++) unload_images_for_view(i);
unload_views(m, from, to) ==
    IF from >= to THEN m
    ELSE unload_views(unload_images_for_view(m, from), from + 1, to)

SDLK_HOME(m) ==
    IF get_current_view(m) # 0
    THEN LET view_count == get_view_count(m)
             m1 == unload_views(m, 1, view_count)
             m2 == set_current_view(m1, 0)
             m3 == load_images_for_view(m2, get_current_view(m2))
         IN IF view_count > 1
            THEN load_images_for_view(m3, get_current_view(m3) + 1)
            ELSE m3
    ELSE m

SDLK_END(m) ==
    LET view_count == get_view_count(m)
    IN IF get_current_view(m) # view_count - 1
       THEN LET m1 == unload_views(m, 0, view_count - 1)
                m2 == set_current_view(m1, view_count - 1)
                m3 == load_images_for_view(m2, get_current_view(m2))
            IN IF view_count > 1
               THEN load_images_for_view(m3, get_current_view(m3) - 1)
               ELSE m3
       ELSE m

\* SDLK_E without the load_images_for_view that follows the unload.
SDLK_E_unload_only(m) ==
    LET m1 == [m EXCEPT !.enhancement_enabled = ~@]
    IN unload_images_for_view(m1, get_current_view(m1))

\* SDLK_E: toggle the enhancement and reload the current view.
SDLK_E(m) ==
    LET m1 == [m EXCEPT !.enhancement_enabled = ~@]
        m2 == unload_images_for_view(m1, get_current_view(m1))
    IN load_images_for_view(m2, get_current_view(m2))

\* Progress of the page turn in units of the per-frame increment 0.05f.
ProgressDone == 20

\* render_current_view: the only state it changes is the page-turn animation.
render_current_view(m) ==
    IF m.page_turning_in_progress
    THEN IF \/ ~m.images[get_current_view(m)].texture
            \/ ~m.images[m.target_view].texture
         THEN [m EXCEPT !.page_turning_in_progress = FALSE]
         ELSE IF m.page_turn_progress + 1 >= ProgressDone
              THEN set_current_view(
                       [m EXCEPT !.page_turn_progress = @ + 1,
                                 !.page_turning_in_progress = FALSE],
                       m.target_view)
              ELSE [m EXCEPT !.page_turn_progress = @ + 1]
    ELSE m

\* ------------------------------------------------ construction and loading
\* struct ViewerState viewer after comic_viewer_init.
comic_viewer_init ==
    [image_count |-> 0,
     archive |-> FALSE,
     images |-> [i \in Pages |-> NoImage],
     nodes |-> [n \in NodeIds |-> FreeNode],
     brk |-> 0,
     first_view |-> NULL,
     current_view_node |-> NULL,
     current_view_index |-> 0,
     view_count |-> 0,
     page_turning_enabled |-> FALSE,
     page_turning_in_progress |-> FALSE,
     page_turn_progress |-> 0,
     target_view |-> 0,
     direction |-> 0,
     last_page_change_time |-> 0,
     show_progress_indicator |-> FALSE,
     enhancement_enabled |-> FALSE]

\* The loaders' result: image_count, the archive handle, and (directory
\* sources only) the path of every page.
open_source(m) ==
    [m EXCEPT !.image_count = source.pages,
              !.archive = source.archive_backed,
              !.images = [i \in Pages |->
                  IF ~source.archive_backed /\ i < source.pages
                  THEN [NoImage EXCEPT !.path = TRUE] ELSE NoImage]]

\* comic_viewer_load on a source that opens.
comic_viewer_load(m) == generate_default_views(open_source(m))

\* comic_viewer_run up to the main loop.
comic_viewer_run(m) ==
    LET m0 == [m EXCEPT !.enhancement_enabled = get_default_processing_options]
        m1 == load_images_for_view(m0, get_current_view(m0))
    IN IF get_view_count(m1) > 1
       THEN load_images_for_view(m1, get_current_view(m1) + 1)
       ELSE m1

\* ------------------------------------------------------- the page variant
\* The static viewer struct of the page variant after comic_viewer_init.
\* The struct is zero-initialised and no statement assigns
\* page_turning_enabled outside the branch it guards: it is the switch of
\* the animation, a parameter of the configuration.
comic_viewer_init_pages(enabled) ==
    [image_count |-> 0,
     archive |-> FALSE,
     images |-> [i \in Pages |-> NoImage],
     current_image |-> 0,
     preloaded_image |-> -1,
     page_turning_enabled |-> enabled,
     page_turning_in_progress |-> FALSE,
     page_turn_progress |-> 0,
     target_image |-> 0,
     direction |-> 0,
     last_page_change_time |-> 0,
     show_progress_indicator |-> FALSE,
     \* image_load_surface takes no options in this variant
     enhancement_enabled |-> FALSE]

\* load_image followed by preloaded_image = index.
preload(m, index) == [load_image(m, index) EXCEPT !.preloaded_image = index]

next_page(m) ==
    IF m.current_image = m.image_count - 1 \/ m.page_turning_in_progress
    THEN m
    ELSE LET m1 == IF m.current_image > 0
                   THEN unload_image(m, m.current_image - 1) ELSE m
             m2 == [m1 EXCEPT !.last_page_change_time = ticks,
                              !.show_progress_indicator = TRUE]
         IN IF m2.page_turning_enabled
            THEN LET m3 == [m2 EXCEPT !.target_image = m.current_image + 1,
                                      !.page_turning_enabled = TRUE,
                                      !.page_turn_progress = 0,
                                      !.direction = 1]
                 IN IF m3.current_image < m3.image_count - 1
                    THEN preload(m3, m3.current_image + 1)
                    ELSE m3
            ELSE load_image([m2 EXCEPT !.current_image = @ + 1],
                            m2.current_image + 1)

previous_page(m) ==
    IF m.current_image = 0 \/ m.page_turning_in_progress
    THEN m
    ELSE LET m1 == IF m.current_image < m.image_count - 1
                   THEN unload_image(m, m.current_image + 1) ELSE m
             m2 == [m1 EXCEPT !.last_page_change_time = ticks,
                              !.show_progress_indicator = TRUE]
         IN IF m2.page_turning_enabled
            THEN LET m3 == [m2 EXCEPT !.target_image = m.current_image - 1,
                                      !.page_turning_enabled = TRUE,
                                      !.page_turn_progress = 0,
                                      !.direction = -1]
                 IN IF m3.current_image > 0
                    THEN preload(m3, m3.current_image - 1)
                    ELSE m3
            ELSE load_image([m2 EXCEPT !.current_image = @ - 1],
                            m2.current_image - 1)

RECURSIVE unload_range(_, _, _)
\* for (i = from; i < to; i++) unload_image(i);
unload_range(m, from, to) ==
    IF from >= to THEN m
    ELSE unload_range(unload_image(m, from), from + 1, to)

SDLK_HOME_pages(m) ==
    IF m.current_image # 0
    THEN LET m1 == unload_range(m, 1, m.image_count)
             m2 == load_image([m1 EXCEPT !.current_image = 0], 0)
         IN IF m2.image_count > 1 THEN preload(m2, 1) ELSE m2
    ELSE m

SDLK_END_pages(m) ==
    IF m.current_image # m.image_count - 1
    THEN LET m1 == unload_range(m, 0, m.image_count - 1)
             m2 == load_image([m1 EXCEPT !.current_image = m.image_count - 1],
                              m.image_count - 1)
         IN IF m2.image_count > 1 THEN preload(m2, m2.image_count - 2) ELSE m2
    ELSE m

\* render_current_image: the page-turn branch is the only one that changes
\* state.
render_current_image(m) ==
    IF m.page_turning_in_progress
    THEN IF \/ ~m.images[m.current_image].texture
            \/ ~m.images[m.target_image].texture
         THEN [m EXCEPT !.page_turning_in_progress = FALSE]
         ELSE IF m.page_turn_progress + 1 >= ProgressDone
              THEN [m EXCEPT !.page_turn_progress = @ + 1,
                             !.page_turning_in_progress = FALSE,
                             !.current_image = m.target_image]
              ELSE [m EXCEPT !.page_turn_progress = @ + 1]
    ELSE m

\* comic_viewer_load of the page variant on a source that opens.
comic_viewer_load_pages(m) ==
    [m EXCEPT !.image_count = source.pages,
              !.archive = source.archive_backed,
              !.images = [i \in Pages |->
                  IF ~source.archive_backed /\ i < source.pages
                  THEN [NoImage EXCEPT !.path = TRUE] ELSE NoImage]]

\* comic_viewer_run of the page variant up to the main loop; it gives up
\* when the first image does not load.
comic_viewer_run_pages(m) ==
    LET m1 == load_image(m, m.current_image)
    IN IF ~load_image_ok(m, m.current_image) THEN m1
       ELSE IF m1.image_count > 1
            THEN preload(m1, m1.current_image + 1)
            ELSE m1

\* -------------------------------------------------------------- strings
\* A C string is the sequence of its characters; the terminating NUL, read
\* past the end, is "".
\* The characters the model uses, in increasing order of their byte value.
CharOrder ==
    <<"\"", "'", ".", "/", "0", "1", "2", "3", "4", "5", "6", "7", "8", "9",
      "B", "C", "Z", "\\", "b", "c", "d", "f", "g", "i", "j", "n", "p",
      "r", "t", "x", "z">>

At(s, p) == IF p <= Len(s) THEN s[p] ELSE ""

\* The value of a character as unsigned char, up to an increasing map.
Byte(c) ==
    IF c = "" THEN 0 ELSE CHOOSE i \in 1..Len(CharOrder) : CharOrder[i] = c

isdigit(c) == c \in {"0", "1", "2", "3", "4", "5", "6", "7", "8", "9"}

tolower(c) ==
    CASE c = "B" -> "b" [] c = "C" -> "c" [] c = "Z" -> "z" [] OTHER -> c

Sign(n) == IF n < 0 THEN -1 ELSE IF n > 0 THEN 1 ELSE 0

\* strcmp, by its sign.
RECURSIVE strcmp_from(_, _, _)
strcmp_from(s1, s2, p) ==
    IF At(s1, p) # At(s2, p) THEN Sign(Byte(At(s1, p)) - Byte(At(s2, p)))
    ELSE IF At(s1, p) = "" THEN 0
    ELSE strcmp_from(s1, s2, p + 1)

strcmp(s1, s2) == strcmp_from(s1, s2, 1)

\* strcasecmp(s1, s2) == 0
strcaseeq(s1, s2) ==
    /\ Len(s1) = Len(s2)
    /\ \A p \in 1..Len(s1) : tolower(s1[p]) = tolower(s2[p])

\* strverscmp (glibc), by its sign: the states of its automaton, its two
\* tables, and the two result codes that are not a result.
S_N == 0
S_I == 3
S_F == 6
S_Z == 9
CMP == 2
LEN == 3

next_state ==
    <<S_N, S_I, S_Z,
      S_N, S_I, S_I,
      S_N, S_F, S_F,
      S_N, S_F, S_Z>>

result_type ==
    <<CMP, CMP, CMP,  CMP, LEN, CMP,  CMP, CMP, CMP,
      CMP, -1,  -1,   1,   LEN, LEN,  1,   LEN, LEN,
      CMP, CMP, CMP,  CMP, CMP, CMP,  CMP, CMP, CMP,
      CMP, 1,   1,    -1,  CMP, CMP,  -1,  CMP, CMP>>

\* (c == '0') + (isdigit(c) != 0)
char_class(c) == (IF c = "0" THEN 1 ELSE 0) + (IF isdigit(c) THEN 1 ELSE 0)

\* The LEN case: the longer run of digits is the greater number.
RECURSIVE compare_run_length(_, _, _, _)
compare_run_length(s1, s2, p, diff) ==
    IF isdigit(At(s1, p))
    THEN IF ~isdigit(At(s2, p)) THEN 1
         ELSE compare_run_length(s1, s2, p + 1, diff)
    ELSE IF isdigit(At(s2, p)) THEN -1 ELSE diff

RECURSIVE strverscmp_from(_, _, _, _)
strverscmp_from(s1, s2, p, state) ==
    LET c1 == At(s1, p)
        c2 == At(s2, p)
        diff == Sign(Byte(c1) - Byte(c2))
    IN IF diff = 0
       THEN IF c1 = "" THEN 0
            ELSE strverscmp_from(s1, s2, p + 1,
                     next_state[state + 1] + char_class(At(s1, p + 1)))
       ELSE LET result == result_type[state * 3 + char_class(c2) + 1]
            IN IF result = CMP THEN diff
               ELSE IF result = LEN
                    THEN compare_run_length(s1, s2, p + 1, diff)
               ELSE result

strverscmp(s1, s2) ==
    strverscmp_from(s1, s2, 1, S_N + char_class(At(s1, 1)))

\* ------------------------------------------------- comic_loaders_utils.c
\* The index of the last occurrence of c in s, 0 when there is none.
strrchr(s, c) ==
    IF \E p \in 1..Len(s) : s[p] = c
    THEN CHOOSE p \in 1..Len(s) :
             s[p] = c /\ \A q \in (p + 1)..Len(s) : s[q] # c
    ELSE 0

get_filename_from_path(path) ==
    LET last_slash == strrchr(path, "/")
        last_backslash == strrchr(path, "\\")
        last_separator ==
            IF last_slash > last_backslash THEN last_slash ELSE last_backslash
    IN SubSeq(path, last_separator + 1, Len(path))

ImageExtensions ==
    {<<"j", "p", "g">>, <<"j", "p", "e", "g">>, <<"p", "n", "g">>,
     <<"g", "i", "f">>, <<"b", "m", "p">>, <<"w", "e", "b", "p">>}

is_image_file(filename) ==
    LET ext == strrchr(filename, ".")
    IN /\ ext # 0
       /\ \E e \in ImageExtensions :
              strcaseeq(SubSeq(filename, ext + 1, Len(filename)), e)

\* The two versions of image_name_compare the repository holds: plain
\* strcmp, and strverscmp.
image_name_compare(a, b) == strcmp(a, b)

image_name_compare_natural(a, b) == strverscmp(a, b)

\* qsort with the image_name_compare of the build: natural says which
\* version of comic_loaders_utils.c is linked.
RECURSIVE sorted_insert(_, _, _)
sorted_insert(sorted, x, natural) ==
    IF sorted = <<>> THEN <<x>>
    ELSE IF (IF natural THEN image_name_compare_natural(x, Head(sorted))
             ELSE image_name_compare(x, Head(sorted))) < 0
         THEN <<x>> \o sorted
         ELSE <<Head(sorted)>> \o sorted_insert(Tail(sorted), x, natural)

RECURSIVE qsort(_, _)
qsort(entries, natural) ==
    IF entries = <<>> THEN <<>>
    ELSE sorted_insert(qsort(Tail(entries), natural), Head(entries), natural)

RECURSIVE escape_chars(_)
escape_chars(str) ==
    IF str = <<>> THEN <<>>
    ELSE (IF Head(str) = "'" THEN <<"'", "\\", "'", "'">> ELSE <<Head(str)>>)
         \o escape_chars(Tail(str))

escape_shell_arg(str) == <<"'">> \o escape_chars(str) \o <<"'">>

\* malloc((2*len + 3) * sizeof(char))
escape_shell_arg_size(str) == 2 * Len(str) + 3

NUL == "\\0"

\* Every escaped[j++] = ... of escape_shell_arg, the final escaped[j] = 0
\* included.
escape_shell_arg_writes(str) == Append(escape_shell_arg(str), NUL)

NoBuffer == [size |-> 0, bytes |-> <<>>]

\* The strings escape_shell_arg is given: file names with quotes and blanks.
ArgChars == {"a", "'", " "}
Args == UNION {[1..n -> ArgChars] : n \in 0..MaxArg}

\* escape_shell_arg was not called.
EscapeIdle ==
    /\ arg = <<>>
    /\ buffer = NoBuffer

\* ------------------------------------------------------------- loaders
\* Progress fractions are in thousandths: 1.0f is Terminal.
Terminal == 1000

NoHandle ==
    [type |-> "ARCHIVE_TYPE_NONE", path |-> <<>>, temp_dir |-> <<>>,
     total_images |-> 0, entry_names |-> <<>>]

\* The directory mkdtemp creates.
TempDir == <<"/", "t">>

\* One command line handed to popen or system: the program and, for every
\* value interpolated into it, the value and the text it was written as.
Command(program, values, texts) ==
    [program |-> program, values |-> values, texts |-> texts]

\* First pass of load_directory over the entries readdir returns.
RECURSIVE scan_directory(_, _, _, _)
scan_directory(path, entries, image_paths, calls) ==
    IF entries = <<>> \/ ~(Len(image_paths) < MAX_IMAGES)
    THEN [image_paths |-> image_paths, progress |-> calls]
    ELSE IF is_image_file(Head(entries))
         THEN scan_directory(path, Tail(entries),
                  Append(image_paths, path \o <<"/">> \o Head(entries)),
                  IF (Len(image_paths) + 1) % 5 = 0
                  THEN Append(calls, 500) ELSE calls)
         ELSE scan_directory(path, Tail(entries), image_paths, calls)

load_directory(a) ==
    IF a.fail = "open"
    THEN [ok |-> FALSE, image_count |-> 0, paths |-> <<>>, progress |-> <<0>>]
    ELSE LET scan == scan_directory(a.path, a.entries, <<>>, <<0>>)
             count == Len(scan.image_paths)
         IN IF count = 0
            THEN [ok |-> FALSE, image_count |-> 0, paths |-> <<>>,
                  progress |-> Append(scan.progress, Terminal)]
            ELSE [ok |-> TRUE, image_count |-> count,
                  paths |-> qsort(scan.image_paths, a.natural),
                  progress |-> scan.progress \o <<700, 900, Terminal>>]

\* The scanning loop of cbz_open with the fraction running backwards.
RECURSIVE scan_zip_backwards(_, _, _, _)
scan_zip_backwards(entries, i, image_entries, calls) ==
    IF i >= Len(entries)
    THEN [image_entries |-> image_entries, progress |-> calls]
    ELSE scan_zip_backwards(entries, i + 1,
             IF is_image_file(get_filename_from_path(entries[i + 1]))
             THEN Append(image_entries, entries[i + 1]) ELSE image_entries,
             IF i % 10 = 0
             THEN Append(calls,
                      200 + (700 * (Len(entries) - i)) \div Len(entries))
             ELSE calls)

\* First pass of cbz_open: entry i is entries[i + 1].
RECURSIVE scan_zip(_, _, _, _)
scan_zip(entries, i, image_entries, calls) ==
    IF i >= Len(entries)
    THEN [image_entries |-> image_entries, progress |-> calls]
    ELSE scan_zip(entries, i + 1,
             IF is_image_file(get_filename_from_path(entries[i + 1]))
             THEN Append(image_entries, entries[i + 1]) ELSE image_entries,
             IF i % 10 = 0
             THEN Append(calls, 200 + (700 * i) \div Len(entries))
             ELSE calls)

Failed(calls, commands) ==
    [handle |-> NoHandle, progress |-> calls, shell |-> commands]

cbz_open(a) ==
    IF a.fail = "open" \/ Len(a.entries) <= 0 THEN Failed(<<0>>, <<>>)
    ELSE IF a.fail = "mkdtemp" THEN Failed(<<0, 100>>, <<>>)
    ELSE IF a.fail = "malloc" THEN Failed(<<0, 100, 200>>, <<>>)
    ELSE LET scan == scan_zip(a.entries, 0, <<>>, <<0, 100, 200>>)
             count == Len(scan.image_entries)
         IN IF count = 0 THEN Failed(scan.progress, <<>>)
            ELSE [handle |-> [type |-> "ARCHIVE_TYPE_CBZ",
                              path |-> a.path,
                              temp_dir |-> TempDir,
                              total_images |-> count,
                              entry_names |-> qsort(scan.image_entries, a.natural)],
                  progress |-> Append(scan.progress, Terminal),
                  shell |-> <<>>]

\* The lines of "unrar lb" that name an image.
image_lines(entries) ==
    LET Test(line) == is_image_file(get_filename_from_path(line))
    IN SelectSeq(entries, Test)

cbr_open(a) ==
    LET list == Command("unrar lb", <<a.path>>, <<escape_shell_arg(a.path)>>)
    IN IF a.fail = "tool" THEN Failed(<<0, Terminal>>, <<>>)
       ELSE IF a.fail = "mkdtemp" THEN Failed(<<0>>, <<>>)
       ELSE IF a.fail = "malloc" THEN Failed(<<0, 100>>, <<>>)
       ELSE IF a.fail = "open" THEN Failed(<<0, 100>>, <<list>>)
       ELSE LET image_entries == image_lines(a.entries)
                count == Len(image_entries)
            IN IF count = 0 THEN Failed(<<0, 100>>, <<list>>)
               ELSE [handle |-> [type |-> "ARCHIVE_TYPE_CBR",
                                 path |-> a.path,
                                 temp_dir |-> TempDir,
                                 total_images |-> count,
                                 entry_names |-> qsort(image_entries, a.natural)],
                     progress |-> <<0, 100, 800, Terminal>>,
                     shell |-> <<list>>]

\* pdf_open: the document has one page per entry; pdfinfo is the tool.
pdf_open(a) ==
    LET info == Command("pdfinfo", <<a.path>>, <<escape_shell_arg(a.path)>>)
        n_pages == IF a.fail \in {"open", "tool"} THEN 0 ELSE Len(a.entries)
    IN IF a.fail = "mkdtemp" THEN Failed(<<0, 100, Terminal>>, <<>>)
       ELSE IF n_pages <= 0 THEN Failed(<<0, 100, 200, Terminal>>, <<info>>)
       ELSE IF a.fail = "malloc"
            THEN Failed(<<0, 100, 200, 600, Terminal>>, <<info>>)
       ELSE [handle |-> [type |-> "ARCHIVE_TYPE_PDF",
                         path |-> a.path,
                         temp_dir |-> TempDir,
                         total_images |-> n_pages,
                         entry_names |-> <<>>],
             progress |-> <<0, 100, 200, 600, Terminal>>,
             shell |-> <<info>>]

archive_open(a, type) ==
    CASE type = "ARCHIVE_TYPE_CBZ" -> cbz_open(a)
      [] type = "ARCHIVE_TYPE_CBR" -> cbr_open(a)
      [] type = "ARCHIVE_TYPE_PDF" -> pdf_open(a)
      [] OTHER -> Failed(<<>>, <<>>)

\* What comic_viewer_load leaves behind for a path: its result, the source
\* type, image_count, the page paths of a directory, the archive handle,
\* the calls of update_progress and the command lines run.
NotLoaded(type, calls) ==
    [result |-> FALSE, type |-> type, image_count |-> 0, paths |-> <<>>,
     handle |-> NoHandle, progress |-> calls, shell |-> <<>>]

\* The archive type comic_viewer_load derives from the last four characters.
source_type(path) ==
    LET ext == SubSeq(path, Len(path) - 3, Len(path))
    IN IF Len(path) <= 4 THEN "SOURCE_UNKNOWN"
       ELSE IF \/ strcaseeq(ext, <<".", "c", "b", "z">>)
               \/ strcaseeq(ext, <<".", "z", "i", "p">>) THEN "SOURCE_CBZ"
       ELSE IF \/ strcaseeq(ext, <<".", "c", "b", "r">>)
               \/ strcaseeq(ext, <<".", "r", "a", "r">>) THEN "SOURCE_CBR"
       ELSE IF strcaseeq(ext, <<".", "p", "d", "f">>) THEN "SOURCE_PDF"
       ELSE "SOURCE_UNKNOWN"

archive_type(type) ==
    CASE type = "SOURCE_CBZ" -> "ARCHIVE_TYPE_CBZ"
      [] type = "SOURCE_CBR" -> "ARCHIVE_TYPE_CBR"
      [] type = "SOURCE_PDF" -> "ARCHIVE_TYPE_PDF"
      [] OTHER -> "ARCHIVE_TYPE_NONE"

comic_viewer_load_path(a) ==
    IF a.stat = "missing" THEN NotLoaded("SOURCE_UNKNOWN", <<0>>)
    ELSE IF a.stat = "dir"
    THEN LET dir == load_directory(a)
         IN [result |-> dir.ok, type |-> "SOURCE_DIRECTORY",
             image_count |-> dir.image_count, paths |-> dir.paths,
             handle |-> NoHandle,
             progress |-> <<0>> \o dir.progress
                          \o (IF dir.ok THEN <<>> ELSE <<Terminal>>),
             shell |-> <<>>]
    ELSE LET type == source_type(a.path)
             open == archive_open(a, archive_type(type))
         IN IF type = "SOURCE_UNKNOWN"
            THEN NotLoaded(type, <<0, Terminal>>)
            ELSE [result |-> open.handle # NoHandle, type |-> type,
                  image_count |-> open.handle.total_images, paths |-> <<>>,
                  handle |-> open.handle,
                  progress |-> <<0>> \o open.progress
                               \o (IF open.handle # NoHandle THEN <<>>
                                   ELSE <<Terminal>>),
                  shell |-> open.shell]

\* ------------------------------------------------- extraction on demand
output_path_of(handle, index) ==
    handle.temp_dir \o <<"/">> \o handle.entry_names[index + 1]

\* mkdir -p "%s" on the directory part of the output path.
make_directories(output_path) ==
    LET last_slash == strrchr(output_path, "/")
        dir_part == SubSeq(output_path, 1, last_slash - 1)
    IN IF last_slash # 0
       THEN <<Command("mkdir -p", <<dir_part>>,
                      <<(<<"\"">> \o dir_part \o <<"\"">>)>>)>>
       ELSE <<>>

NotExtracted(files, commands, wrote) ==
    [ok |-> FALSE, out_path |-> <<>>, files |-> files, shell |-> commands,
     extracted |-> wrote]

\* cbz_get_image: outcome is what libzip and the file system do, "zip_fopen"
\* and "fopen" failing before anything is written, "zip_fread" after.
cbz_get_image(handle, files, index, outcome) ==
    LET output_path == output_path_of(handle, index)
    IN IF index < 0 \/ index >= handle.total_images
       THEN NotExtracted(files, <<>>, FALSE)
       ELSE IF output_path \in files
       THEN [ok |-> TRUE, out_path |-> output_path, files |-> files,
             shell |-> <<>>, extracted |-> FALSE]
       ELSE IF outcome \in {"zip_fopen", "fopen"}
       THEN NotExtracted(files, make_directories(output_path), FALSE)
       ELSE IF outcome = "zip_fread"
       THEN NotExtracted(files \cup {output_path},
                         make_directories(output_path), TRUE)
       ELSE [ok |-> TRUE, out_path |-> output_path,
             files |-> files \cup {output_path},
             shell |-> make_directories(output_path), extracted |-> TRUE]

\* cbr_get_image: outcome "unrar" is a non-zero exit status, "absent" an
\* exit status 0 that left no file.
cbr_get_image(handle, files, index, outcome) ==
    LET output_path == output_path_of(handle, index)
        entry_name == handle.entry_names[index + 1]
        extract == Command("unrar x -o+",
                       <<handle.path, entry_name, handle.temp_dir>>,
                       <<escape_shell_arg(handle.path),
                         escape_shell_arg(entry_name),
                         escape_shell_arg(handle.temp_dir)>>)
        commands == make_directories(output_path) \o <<extract>>
    IN IF index < 0 \/ index >= handle.total_images
       THEN NotExtracted(files, <<>>, FALSE)
       ELSE IF output_path \in files
       THEN [ok |-> TRUE, out_path |-> output_path, files |-> files,
             shell |-> <<>>, extracted |-> FALSE]
       ELSE IF outcome \in {"unrar", "absent"}
       THEN NotExtracted(files, commands, FALSE)
       ELSE [ok |-> TRUE, out_path |-> output_path,
             files |-> files \cup {output_path},
             shell |-> commands, extracted |-> TRUE]

\* archive_get_image of comic_loaders.c, on the handle of a CBZ or CBR.
archive_get_image_from(handle, files, index, outcome) ==
    IF index < 0 \/ index >= handle.total_images
    THEN NotExtracted(files, <<>>, FALSE)
    ELSE IF handle.type = "ARCHIVE_TYPE_CBZ"
    THEN cbz_get_image(handle, files, index, outcome)
    ELSE IF handle.type = "ARCHIVE_TYPE_CBR"
    THEN cbr_get_image(handle, files, index, outcome)
    ELSE NotExtracted(files, <<>>, FALSE)

Outcomes(type) ==
    IF type = "ARCHIVE_TYPE_CBZ" THEN {"ok", "zip_fopen", "fopen", "zip_fread"}
    ELSE {"ok", "unrar", "absent"}


\* ------------------------------------------------ the inputs of an open
DigitChar(d) == <<"0", "1", "2", "3", "4", "5", "6", "7", "8", "9">>[d + 1]

RECURSIVE Decimal(_)
Decimal(n) ==
    IF n < 10 THEN <<DigitChar(n)>>
    ELSE Decimal(n \div 10) \o <<DigitChar(n % 10)>>

\* Entry k of a comic: a numbered page, or a numbered file that is no image.
EntryName(prefix, k, image) ==
    prefix \o Decimal(k)
    \o (IF image THEN <<".", "j", "p", "g">> ELSE <<".", "t", "x", "t">>)

Reverse(seq) == [i \in 1..Len(seq) |-> seq[Len(seq) + 1 - i]]

\* The entries 1..n in the order the directory or archive lists them; junk
\* says which of them are not images.
Listings(maxn, prefixes) ==
    LET Numbered(n, junk, prefix) ==
            [k \in 1..n |->
                EntryName(prefix, k,
                          junk = "none" \/ (junk = "first" /\ k > 1))]
    IN UNION {{Numbered(n, junk, prefix), Reverse(Numbered(n, junk, prefix))} :
              n \in 0..maxn, junk \in {"none", "first", "all"},
              prefix \in prefixes}

DirPath == <<"d">>
ArchivePaths ==
    {<<"c", ".", "c", "b", "z">>, <<"C", ".", "C", "B", "Z">>,
     <<"c", ".", "z", "i", "p">>, <<"c", ".", "c", "b", "r">>,
     <<"c", ".", "r", "a", "r">>, <<"c", ".", "p", "d", "f">>}
OtherPaths == {<<"c", ".", "t", "x", "t">>, <<"c", "b", "z">>}

\* File names of a directory, entry names of an archive.
DirPrefixes == {<<"p">>, <<"'">>}
ArchivePrefixes == {<<"p">>, <<"d", "'", "/", "p">>}

NoAttempt ==
    [path |-> <<>>, stat |-> "missing", entries |-> <<>>, fail |-> "none",
     natural |-> FALSE]

Attempts(maxn) ==
    [path : ArchivePaths \cup OtherPaths \cup {DirPath}, stat : {"missing"},
     entries : {<<>>}, fail : {"none"}, natural : {FALSE}]
    \cup [path : {DirPath}, stat : {"dir"},
          entries : Listings(maxn, DirPrefixes),
          fail : {"none", "open"}, natural : BOOLEAN]
    \cup [path : ArchivePaths \cup OtherPaths, stat : {"file"},
          entries : Listings(maxn, ArchivePrefixes),
          fail : {"none", "open", "mkdtemp", "malloc", "tool"},
          natural : BOOLEAN]

NoGet ==
    [calls |-> 0, index |-> -1, ok |-> FALSE, out_path |-> <<>>,
     extracted |-> FALSE, done |-> {}]

\* No path was given to the loaders yet.
LoaderIdle ==
    /\ attempt = NoAttempt
    /\ progress = <<>>
    /\ opened = NotLoaded("SOURCE_UNKNOWN", <<>>)
    /\ tmpfs = {}
    /\ shell = <<>>
    /\ got = NoGet

\* ------------------------------------------- create_texture: auto-crop
threshold == 240
required_non_white == 3
\* The least distance the right and bottom scans keep from left and top.
MinSpan == 100

\* A decoded page: a white surface of w x h pixels with dark content in the
\* columns content.left..content.right of the rows content.top..content.bottom.
NoSurface ==
    [w |-> 0, h |-> 0,
     content |-> [left |-> 0, right |-> -1, top |-> 0, bottom |-> -1]]

NoRect == [x |-> 0, y |-> 0, w |-> 0, h |-> 0]

\* (r + g + b) / 3 of the pixel at (x, y).
avg(s, x, y) ==
    IF /\ s.content.left <= x /\ x <= s.content.right
       /\ s.content.top <= y /\ y <= s.content.bottom
    THEN 0 ELSE 255

\* non_white_count of a column reaches required_non_white: every other row
\* is sampled.
column_has_content(s, x) ==
    Cardinality({y \in 0..(s.h - 1) : y % 2 = 0 /\ avg(s, x, y) < threshold})
        >= required_non_white

\* The same for a row, sampled at left, left + 2, ... up to right.
row_has_content(s, y, left, right) ==
    Cardinality({x \in left..right :
                    (x - left) % 2 = 0 /\ avg(s, x, y) < threshold})
        >= required_non_white

\* The least and the greatest member of a non-empty set of positions.
First(S) == CHOOSE x \in S : \A y \in S : x <= y
Last(S) == CHOOSE x \in S : \A y \in S : x >= y

\* for (left = 0; left < w / 2; left++): the loop leaves at the first
\* position that fails its condition or has content.
scan_left(s, left) ==
    First({x \in left..Last({left, s.w \div 2}) :
              ~(x < s.w \div 2) \/ column_has_content(s, x)})

\* for (right = w - 1; right > left + 100; right--)
scan_right(s, left, right) ==
    Last({x \in First({right, left + MinSpan})..right :
             ~(x > left + MinSpan) \/ column_has_content(s, x)})

\* for (top = 0; top < h / 2; top++)
scan_top(s, left, right, top) ==
    First({y \in top..Last({top, s.h \div 2}) :
              ~(y < s.h \div 2) \/ row_has_content(s, y, left, right)})

\* The scan from the bottom kept twice as far from top.
scan_bottom_far(s, left, right, top, bottom) ==
    Last({y \in First({bottom, top + 2 * MinSpan})..bottom :
             ~(y > top + 2 * MinSpan) \/ row_has_content(s, y, left, right)})

\* for (bottom = h - 1; bottom > top + 100; bottom--)
scan_bottom(s, left, right, top, bottom) ==
    Last({y \in First({bottom, top + MinSpan})..bottom :
             ~(y > top + MinSpan) \/ row_has_content(s, y, left, right)})

\* The crop_rect create_texture computes for the surface it decoded.
create_texture_crop_rect(s) ==
    LET left == scan_left(s, 0)
        right == scan_right(s, left, s.w - 1)
        top == scan_top(s, left, right, 0)
        bottom == scan_bottom(s, left, right, top, s.h - 1)
        rect == [x |-> left, y |-> top,
                 w |-> right - left + 1, h |-> bottom - top + 1]
    IN IF rect.w <= 0 \/ rect.h <= 0
       THEN [x |-> 0, y |-> 0, w |-> s.w, h |-> s.h]
       ELSE rect

\* The decoded pages: content of some width and height inside white margins
\* of at least MinSpan pixels on each side.
Margins == {MinSpan, MaxMargin}
ContentSizes == {6, MaxContent - 1, MaxContent}

FramedPages ==
    {[w |-> ml + cw + mr, h |-> mt + ch + mb,
      content |-> [left |-> ml, right |-> ml + cw - 1,
                   top |-> mt, bottom |-> mt + ch - 1]] :
        ml \in Margins, mr \in Margins, mt \in Margins, mb \in Margins,
        cw \in ContentSizes, ch \in ContentSizes}

\* Entirely white pages, from one pixel up to the widest margin.
WhitePages ==
    {[NoSurface EXCEPT !.w = w, !.h = h] :
        w \in {1, 2, MaxContent - 1, MaxContent, MaxMargin},
        h \in {1, 2, MaxContent - 1, MaxContent, MaxMargin}}

Surfaces == FramedPages \cup WhitePages

\* No page was decoded yet.
DecoderIdle ==
    /\ surface = NoSurface
    /\ crop_rect = NoRect

\* --------------------------------------------------------------- actions
Sources == [pages : 1..MaxPages, archive_backed : BOOLEAN]

Faults(src) ==
    {NoFault}
    \cup {[page |-> p, kind |-> "decode"] : p \in 0..(src.pages - 1)}
    \cup {[page |-> p, kind |-> "extract"] :
              p \in IF src.archive_backed THEN 0..(src.pages - 1) ELSE {}}

\* The value of trail once some other event, or too many, were dispatched.
Other == <<"other">>

record(name) ==
    IF /\ name \in {"next_view", "previous_view"}
       /\ trail # Other
       /\ Len(trail) < MaxTrail
    THEN Append(trail, name)
    ELSE Other

Init ==
    /\ pc = "init"
    /\ source \in Sources
    /\ fault \in Faults(source)
    /\ ticks = 0
    /\ event = "none"
    /\ trail = <<>>
    /\ viewer = comic_viewer_init
    /\ pviewer = comic_viewer_init_pages(FALSE)
    /\ LoaderIdle
    /\ DecoderIdle
    /\ EscapeIdle

Load ==
    /\ pc = "init"
    /\ pc' = "loaded"
    /\ viewer' = comic_viewer_load(viewer)
    /\ UNCHANGED <<source, fault, ticks, event, trail, pviewer, loader_vars, decoder_vars,
                   escape_vars>>

Run ==
    /\ pc = "loaded"
    /\ pc' = IF viewer.image_count = 0 THEN "exit" ELSE "running"
    /\ viewer' = IF viewer.image_count = 0 THEN viewer ELSE comic_viewer_run(viewer)
    /\ UNCHANGED <<source, fault, ticks, event, trail, pviewer, loader_vars, decoder_vars,
                   escape_vars>>

\* One dispatched event: the handler runs to completion.
Handle(name, after) ==
    /\ pc = "running"
    /\ event' = name
    /\ trail' = record(name)
    /\ viewer' = after
    /\ UNCHANGED <<pc, source, fault, ticks, pviewer, loader_vars, decoder_vars,
                   escape_vars>>

NextView == Handle("next_view", next_view(viewer))
PreviousView == Handle("previous_view", previous_view(viewer))
\* The split handler allocates a node: the heap of the model must have one.
KeySplit ==
    /\ pc = "running"
    /\ viewer.nodes[viewer.current_view_node].count = 1 \/ viewer.brk < MaxNodes
    /\ Handle("SDLK_1", SDLK_1(viewer))
KeyMerge == Handle("SDLK_2", SDLK_2(viewer))
KeyHome == Handle("SDLK_HOME", SDLK_HOME(viewer))
KeyEnd == Handle("SDLK_END", SDLK_END(viewer))

\* SDL_EVENT_QUIT / SDLK_ESCAPE: running = false ends the main loop.
Quit ==
    /\ pc = "running"
    /\ pc' = "exit"
    /\ event' = "quit"
    /\ UNCHANGED <<source, fault, ticks, trail, viewer, pviewer, loader_vars, decoder_vars,
                   escape_vars>>

\* One pass of the main loop after its events: render, then SDL_Delay.
Frame ==
    /\ pc = "running"
    /\ ticks < MaxTicks
    /\ ticks' = ticks + 1
    /\ viewer' = render_current_view(viewer)
    /\ UNCHANGED <<pc, source, fault, event, trail, pviewer, loader_vars, decoder_vars,
                   escape_vars>>

Next ==
    \/ Load
    \/ Run
    \/ NextView
    \/ PreviousView
    \/ KeySplit
    \/ KeyMerge
    \/ KeyHome
    \/ KeyEnd
    \/ Quit
    \/ Frame

Spec == Init /\ [][Next]_vars

\* ------------------------------------- specification, with the E key
\* Every page of the source extracts and decodes; the commands are not
\* recorded in trail.
InitKeys ==
    /\ pc = "init"
    /\ source \in Sources
    /\ fault = NoFault
    /\ ticks = 0
    /\ event = "none"
    /\ trail = Other
    /\ viewer = comic_viewer_init
    /\ pviewer = comic_viewer_init_pages(FALSE)
    /\ LoaderIdle
    /\ DecoderIdle
    /\ EscapeIdle

KeyE == Handle("SDLK_E", SDLK_E(viewer))

NextKeys ==
    \/ Load
    \/ Run
    \/ NextView
    \/ PreviousView
    \/ KeySplit
    \/ KeyMerge
    \/ KeyHome
    \/ KeyEnd
    \/ KeyE
    \/ Quit
    \/ Frame

SpecKeys == InitKeys /\ [][NextKeys]_vars

\* ------------------------------------------------- reading the view list
\* The nodes reached from first_view through next, in order.
RECURSIVE list_from(_, _, _)
list_from(nodes, current, fuel) ==
    IF current = NULL \/ fuel = 0 THEN <<>>
    ELSE <<current>> \o list_from(nodes, nodes[current].next, fuel - 1)

ViewNodes(m) == list_from(m.nodes, m.first_view, MaxNodes)

\* The pages a view shows, slot by slot.
view_pages(m, view) ==
    [i \in 1..m.nodes[view].count |-> m.nodes[view].image_indices[i]]

page_set(m, view) ==
    IF view = NULL THEN {}
    ELSE {m.nodes[view].image_indices[i] : i \in 1..m.nodes[view].count}

\* The view sequence as the list of the page lists of its views.
Listing(m) ==
    [k \in 1..Len(ViewNodes(m)) |-> view_pages(m, ViewNodes(m)[k])]

\* The pages whose texture is loaded.
Resident(m) == {i \in Pages : m.images[i].texture}

FirstView(m) == m.first_view
LastView(m) == last_node(m.nodes, m.first_view)

DefaultListing(n) == [k \in 1..n |-> <<k - 1>>]

Min(a, b) == IF a < b THEN a ELSE b
Max(a, b) == IF a > b THEN a ELSE b

\* ------------------------------------------------------------------ C1
\* C1: after a successful load of a source with N >= 1 pages there are
\* exactly N views, view k holds exactly page k, the views in list order
\* give 0..N-1, view_count = N, and the cursor is on the first view with
\* current_view_index = 0.
C1_DefaultViews ==
    pc = "loaded" =>
        /\ Len(ViewNodes(viewer)) = source.pages
        /\ Listing(viewer) = DefaultListing(source.pages)
        /\ viewer.view_count = source.pages
        /\ viewer.current_view_node = viewer.first_view
        /\ viewer.first_view # NULL
        /\ viewer.current_view_index = 0

C1_Witness ==
    /\ pc = "loaded"
    /\ source.pages >= 2
    /\ Len(ViewNodes(viewer)) = source.pages

\* ------------------------------------------------------------------ C2
\* C2: previous_view() with the cursor on the first view, and next_view()
\* with the cursor on the last view, change nothing: the cursor node, the
\* index, the resident pages and the page-change timer stay as they were.
C2_BoundaryNoOp ==
    [][ (\/ PreviousView /\ viewer.current_view_node = FirstView(viewer)
         \/ NextView /\ viewer.current_view_node = LastView(viewer))
        => /\ viewer'.current_view_node = viewer.current_view_node
           /\ viewer'.current_view_index = viewer.current_view_index
           /\ Resident(viewer') = Resident(viewer)
           /\ viewer'.last_page_change_time = viewer.last_page_change_time
           /\ viewer' = viewer ]_vars

\* previous_view was dispatched on the first view of a source of several
\* pages, later than the last page change; no view change ever happened.
C2_Witness ==
    /\ pc = "running"
    /\ event = "previous_view"
    /\ source.pages >= 2
    /\ viewer.current_view_node = FirstView(viewer)
    /\ ~viewer.show_progress_indicator
    /\ viewer.last_page_change_time < ticks

\* ------------------------------------------------------------------ C3
\* The index reached from view 0 by the commands of t, each +1 or -1 and
\* clamped to [0, n - 1].
RECURSIVE Clamped(_, _)
Clamped(t, n) ==
    IF t = <<>> THEN 0
    ELSE LET before == Clamped(SubSeq(t, 1, Len(t) - 1), n)
         IN IF t[Len(t)] = "next_view"
            THEN Min(before + 1, n - 1)
            ELSE Max(before - 1, 0)

NavigationOnly == pc = "running" /\ fault = NoFault /\ trail # Other

\* C3: from the default views of an N-page source, with every load
\* succeeding, after any sequence of next_view()/previous_view() commands
\* the cursor index is the clamped sum of the commands and the page of the
\* current view is resident; for N = 3, next, next, previous ends on view 1
\* with page 1 resident and at most the lookahead neighbour beside it.
C3_ClampedNavigation ==
    /\ [](NavigationOnly =>
            /\ viewer.current_view_index = Clamped(trail, source.pages)
            /\ viewer.current_view_node =
                   ViewNodes(viewer)[viewer.current_view_index + 1]
            /\ page_set(viewer, viewer.current_view_node) \subseteq Resident(viewer)
            /\ (source.pages = 3
                /\ trail = <<"next_view", "next_view", "previous_view">>)
               => /\ viewer.current_view_index = 1
                  /\ 1 \in Resident(viewer)
                  /\ ~(0 \in Resident(viewer) /\ 2 \in Resident(viewer)))
    /\ [][ (/\ fault = NoFault
            /\ Listing(viewer) = DefaultListing(source.pages)
            /\ NextView \/ PreviousView)
           => /\ viewer'.current_view_index =
                    IF NextView
                    THEN Min(viewer.current_view_index + 1, source.pages - 1)
                    ELSE Max(viewer.current_view_index - 1, 0)
              /\ viewer'.current_view_index \in Resident(viewer') ]_vars

C3_Witness ==
    /\ NavigationOnly
    /\ source.pages = 3
    /\ trail = <<"next_view", "next_view", "previous_view">>
    /\ viewer.current_view_index = 1
    /\ 1 \in Resident(viewer)

\* ------------------------------------------------------------------ C4
\* The views before and after the cursor (NULL when there is none).
PrevOfCurrent(m) == m.nodes[m.current_view_node].prev
NextOfCurrent(m) == m.nodes[m.current_view_node].next

\* C4: at every steady state, all loads succeeding, the resident pages are
\* exactly the pages of the current view and of its immediate neighbour
\* views; after next_view() lands on a view that has a following view, that
\* view's pages are resident (and the preceding view's after previous_view()).
C4_ResidentIsNeighbourhood ==
    (pc = "running" /\ fault = NoFault)
    => Resident(viewer) =
           page_set(viewer, viewer.current_view_node)
           \cup page_set(viewer, PrevOfCurrent(viewer))
           \cup page_set(viewer, NextOfCurrent(viewer))

\* ------------------------------------------------------------------ C5
\* C5: when loading a page of the target view fails, next_view() and
\* previous_view() do not move the cursor into that view: the cursor node
\* and current_view_index stay those of the old view.
C5_NoAdvanceOnFailure ==
    [][ (\/ /\ NextView
            /\ \E p \in page_set(viewer, NextOfCurrent(viewer)) :
                   ~viewer'.images[p].texture
         \/ /\ PreviousView
            /\ \E p \in page_set(viewer, PrevOfCurrent(viewer)) :
                   ~viewer'.images[p].texture)
        => /\ viewer'.current_view_node = viewer.current_view_node
           /\ viewer'.current_view_index = viewer.current_view_index ]_vars

\* ------------------------------------------------------------------ C6
\* The position (0-based) of the cursor node in the list.
RECURSIVE index_of(_, _, _)
index_of(nodes, current, target) ==
    IF current = target THEN 0
    ELSE 1 + index_of(nodes, nodes[current].next, target)

CursorPosition(m) == index_of(m.nodes, m.first_view, m.current_view_node)

\* C6: from N default single-page views, merging ('2') at a view i that has
\* a following view and then splitting ('1') the merged view gives again
\* two consecutive single-page views holding page i and page i+1 in that
\* order; every other view and the cursor position are unchanged.
C6_MergeSplitRoundTrip ==
    (/\ pc = "running"
     /\ Listing(viewer) = DefaultListing(source.pages)
     /\ NextOfCurrent(viewer) # NULL
     /\ viewer.brk < MaxNodes)
    => LET i == CursorPosition(viewer)
           merged == SDLK_2(viewer)
           split == SDLK_1(merged)
       IN /\ Listing(merged) =
                 [k \in 1..(source.pages - 1) |->
                     IF k < i + 1 THEN <<k - 1>>
                     ELSE IF k = i + 1 THEN <<i, i + 1>>
                     ELSE <<k>>]
          /\ Listing(split) = Listing(viewer)
          /\ \A k \in 1..source.pages :
                 k # i + 2 => ViewNodes(split)[k] = ViewNodes(viewer)[k]
          /\ split.current_view_node = viewer.current_view_node
          /\ split.current_view_index = viewer.current_view_index
          /\ CursorPosition(split) = i

\* A split was dispatched last, on a list that a merge had shortened, and
\* the list reads as the default one again, away from the first view.
C6_Witness ==
    /\ pc = "running"
    /\ event = "SDLK_1"
    /\ viewer.brk = source.pages + 1
    /\ Listing(viewer) = DefaultListing(source.pages)
    /\ viewer.current_view_index = 1
    /\ NextOfCurrent(viewer) = viewer.brk

\* ------------------------------------------------------------------ C7
\* C7: merge on the last view changes nothing (count, image indices, links,
\* resident set); split on a view holding exactly 2 pages leaves the current
\* view with its first page and a new node right after it holding the
\* former second page.
C7_MergeSplitBoundary ==
    [][ /\ (KeyMerge /\ viewer.current_view_node = LastView(viewer))
           => viewer' = viewer
        /\ (KeySplit /\ viewer.nodes[viewer.current_view_node].count = 2)
           => LET cur == viewer.current_view_node
                  new == viewer'.nodes[cur].next
              IN /\ viewer'.current_view_node = cur
                 /\ view_pages(viewer', cur) = <<slot(viewer, cur, 0)>>
                 /\ new # NULL
                 /\ new \notin {ViewNodes(viewer)[k] : k \in 1..Len(ViewNodes(viewer))}
                 /\ view_pages(viewer', new) = <<slot(viewer, cur, 1)>>
                 /\ viewer'.nodes[new].prev = cur
                 /\ viewer'.nodes[new].next = viewer.nodes[cur].next
                 /\ Len(ViewNodes(viewer')) = Len(ViewNodes(viewer)) + 1
                 /\ Resident(viewer') = Resident(viewer) ]_vars

\* A split of a two-page view was dispatched: the node after the cursor is
\* the one it allocated, and the cursor's second slot still names the page
\* that moved there.
C7_Witness ==
    /\ pc = "running"
    /\ event = "SDLK_1"
    /\ viewer.brk > source.pages
    /\ NextOfCurrent(viewer) = viewer.brk
    /\ viewer.nodes[viewer.current_view_node].count = 1
    /\ slot(viewer, viewer.current_view_node, 1) = slot(viewer, viewer.brk, 0)

\* ------------------------------------------------------------------ C8
\* The cursor is on target and the resident pages are those of target and
\* of one view next to it.
LandedOn(m, target) ==
    /\ m.current_view_node = target
    /\ \E neighbour \in {m.nodes[target].prev, m.nodes[target].next} \ {NULL} :
           Resident(m) = page_set(m, target) \cup page_set(m, neighbour)

\* C8: on any reachable view sequence, Home issued away from the first view
\* leaves the cursor on the first view and End issued away from the last
\* view leaves it on the last view (the node with no next); afterwards the
\* resident pages are exactly those of the target view and of one
\* neighbouring view.
C8_HomeEndReachTarget ==
    [][ /\ (fault = NoFault /\ KeyHome
            /\ viewer.current_view_node # FirstView(viewer))
           => LandedOn(viewer', FirstView(viewer'))
        /\ (fault = NoFault /\ KeyEnd
            /\ viewer.current_view_node # LastView(viewer))
           => LandedOn(viewer', LastView(viewer')) ]_vars

\* ------------------------------------------ specification, page variant
InitPages ==
    /\ pc = "init"
    /\ source \in Sources
    /\ fault \in Faults(source)
    /\ ticks = 0
    /\ event = "none"
    /\ trail = <<>>
    /\ viewer = comic_viewer_init
    /\ pviewer \in {comic_viewer_init_pages(enabled) : enabled \in BOOLEAN}
    /\ LoaderIdle
    /\ DecoderIdle
    /\ EscapeIdle

LoadPages ==
    /\ pc = "init"
    /\ pc' = "loaded"
    /\ pviewer' = comic_viewer_load_pages(pviewer)
    /\ UNCHANGED <<source, fault, ticks, event, trail, viewer, loader_vars, decoder_vars,
                   escape_vars>>

RunPages ==
    /\ pc = "loaded"
    /\ pc' = IF \/ pviewer.image_count = 0
                \/ ~load_image_ok(pviewer, pviewer.current_image)
             THEN "exit" ELSE "running"
    /\ pviewer' = IF pviewer.image_count = 0 THEN pviewer
                  ELSE comic_viewer_run_pages(pviewer)
    /\ UNCHANGED <<source, fault, ticks, event, trail, viewer, loader_vars, decoder_vars,
                   escape_vars>>

HandlePages(name, after) ==
    /\ pc = "running"
    /\ event' = name
    /\ pviewer' = after
    /\ UNCHANGED <<pc, source, fault, ticks, trail, viewer, loader_vars, decoder_vars,
                   escape_vars>>

NextPage == HandlePages("next_page", next_page(pviewer))
PreviousPage == HandlePages("previous_page", previous_page(pviewer))
KeyHomePages == HandlePages("SDLK_HOME", SDLK_HOME_pages(pviewer))
KeyEndPages == HandlePages("SDLK_END", SDLK_END_pages(pviewer))

QuitPages ==
    /\ pc = "running"
    /\ pc' = "exit"
    /\ event' = "quit"
    /\ UNCHANGED <<source, fault, ticks, trail, viewer, pviewer, loader_vars, decoder_vars,
                   escape_vars>>

FramePages ==
    /\ pc = "running"
    /\ ticks < MaxTicks
    /\ ticks' = ticks + 1
    /\ pviewer' = render_current_image(pviewer)
    /\ UNCHANGED <<pc, source, fault, event, trail, viewer, loader_vars, decoder_vars,
                   escape_vars>>

NextPages ==
    \/ LoadPages
    \/ RunPages
    \/ NextPage
    \/ PreviousPage
    \/ KeyHomePages
    \/ KeyEndPages
    \/ QuitPages
    \/ FramePages

SpecPages == InitPages /\ [][NextPages]_vars

C16_TimerResetOnChange ==
    [][ (/\ fault = NoFault
         /\ NextView \/ PreviousView \/ KeyHome \/ KeyEnd
         /\ viewer'.current_view_node # viewer.current_view_node)
        => viewer'.last_page_change_time = ticks ]_vars

\* ------------------------------------------------------------------ C17
\* C17: unload_image(i) on a resident page leaves both the texture and the
\* decoded surface of page i released; the path is discarded exactly when
\* the source is archive-backed; a later load_image(i) makes the page
\* resident again.
C17_UnloadReleases ==
    \A i \in Resident(viewer) :
        LET m == unload_image(viewer, i)
        IN /\ ~m.images[i].texture
           /\ ~m.images[i].surface
           /\ m.images[i].path = (~viewer.archive /\ viewer.images[i].path)
           /\ fault = NoFault => load_image(m, i).images[i].texture

\* ------------------------------------------------------------------ C18
\* C18: in every reachable state of the running viewer the node found by
\* walking current_view_index steps from first_view is current_view_node.
C18_CursorInSync ==
    pc # "init" =>
        /\ viewer.current_view_node # NULL
        /\ get_view_by_index(viewer, viewer.current_view_index)
               = viewer.current_view_node

\* A split or a merge was dispatched and the cursor then moved off view 0.
C18_Witness ==
    /\ pc = "running"
    /\ trail = Other
    /\ Listing(viewer) # DefaultListing(viewer.image_count)
    /\ viewer.current_view_index > 0
    /\ event \in {"next_view", "SDLK_END"}

\* ------------------------------------------------------------------ C19
\* The page indices read view by view in list order, slot by slot.
RECURSIVE Flatten(_)
Flatten(listing) ==
    IF listing = <<>> THEN <<>>
    ELSE Head(listing) \o Flatten(Tail(listing))

StrictlyAscending(seq) ==
    \A i \in 1..(Len(seq) - 1) : seq[i] < seq[i + 1]

\* C19: after any sequence of split, merge and navigation commands the page
\* indices read view by view, and slot by slot within a view, are strictly
\* ascending.
C19_PageOrderPreserved ==
    pc = "running" => StrictlyAscending(Flatten(Listing(viewer)))

\* A view holding two pages was split again: merge, then split.
C19_Witness ==
    /\ pc = "running"
    /\ event = "SDLK_1"
    /\ viewer.brk > viewer.image_count
    /\ Len(Flatten(Listing(viewer))) > 1

\* ---------------------------------------------- specification, the loaders
\* The viewer before any source is loaded.
ViewerIdle ==
    /\ pc = "init"
    /\ source = [pages |-> 1, archive_backed |-> FALSE]
    /\ fault = NoFault
    /\ ticks = 0
    /\ event = "none"
    /\ trail = <<>>
    /\ viewer = comic_viewer_init
    /\ pviewer = comic_viewer_init_pages(FALSE)

InitOpen ==
    /\ ViewerIdle
    /\ attempt \in Attempts(MaxEntries)
    /\ progress = <<>>
    /\ opened = NotLoaded("SOURCE_UNKNOWN", <<>>)
    /\ tmpfs = {}
    /\ shell = <<>>
    /\ got = NoGet
    /\ DecoderIdle
    /\ EscapeIdle

\* comic_viewer_load(path), up to the views it generates (those are Load's).
OpenAttempt ==
    /\ pc = "init"
    /\ attempt # NoAttempt
    /\ LET load == comic_viewer_load_path(attempt)
       IN /\ pc' = IF load.result THEN "opened" ELSE "failed"
          /\ progress' = load.progress
          /\ shell' = load.shell
          /\ opened' = [load EXCEPT !.progress = <<>>, !.shell = <<>>]
    /\ UNCHANGED <<source, fault, ticks, event, trail, viewer, pviewer,
                   attempt, tmpfs, got, decoder_vars,
                   escape_vars>>

NextOpen == OpenAttempt

SpecOpen == InitOpen /\ [][NextOpen]_vars

InitExtract ==
    /\ ViewerIdle
    /\ attempt \in {a \in Attempts(MaxArchive) :
                       /\ a.stat = "file"
                       /\ a.fail = "none"
                       /\ source_type(a.path) \in {"SOURCE_CBZ", "SOURCE_CBR"}}
    /\ progress = <<>>
    /\ opened = NotLoaded("SOURCE_UNKNOWN", <<>>)
    /\ tmpfs = {}
    /\ shell = <<>>
    /\ got = NoGet
    /\ DecoderIdle
    /\ EscapeIdle

\* load_image's archive_get_image(viewer.archive, index, &image_path).
GetImage ==
    /\ pc = "opened"
    /\ got.calls < MaxGets
    /\ \E index \in 0..(opened.handle.total_images - 1),
          outcome \in Outcomes(opened.handle.type) :
          LET get == archive_get_image_from(opened.handle, tmpfs, index, outcome)
          IN /\ tmpfs' = get.files
             /\ shell' = get.shell
             /\ got' = [calls |-> got.calls + 1,
                        index |-> index,
                        ok |-> get.ok,
                        out_path |-> get.out_path,
                        extracted |-> get.extracted,
                        done |-> IF get.ok THEN got.done \cup {index}
                                 ELSE got.done]
    /\ UNCHANGED <<pc, source, fault, ticks, event, trail, viewer, pviewer,
                   attempt, progress, opened, decoder_vars,
                   escape_vars>>

NextExtract ==
    \/ OpenAttempt
    \/ GetImage

SpecExtract == InitExtract /\ [][NextExtract]_vars

\* ------------------------------------------------------------------ C11
\* C11: every open attempt driven through comic_viewer_load, whether it
\* succeeds or fails, calls the progress callback with the terminal value
\* 1.0 exactly once.
C11_OneTerminalCall ==
    pc \in {"opened", "failed"} =>
        Cardinality({k \in DOMAIN progress : progress[k] = Terminal}) = 1

\* ------------------------------------------------------------------ C12
\* C12: during one open attempt the fractions passed to the progress
\* callback never decrease and all lie in [0, 1], whatever the loader and
\* the number of entries scanned.
C12_ProgressMonotonic ==
    /\ \A k \in DOMAIN progress : 0 <= progress[k] /\ progress[k] <= Terminal
    /\ \A k \in 1..(Len(progress) - 1) : progress[k] <= progress[k + 1]

\* A ZIP archive whose scan reported progress more than once.
C12_Witness ==
    /\ pc = "opened"
    /\ opened.type = "SOURCE_CBZ"
    /\ \E j, k \in DOMAIN progress :
           /\ j < k
           /\ 200 <= progress[j]
           /\ progress[j] < progress[k]
           /\ progress[k] < Terminal

\* ------------------------------------------------------------------ C13
\* The image entries of the archive that was opened.
ImageEntries == image_lines(attempt.entries)

\* C13: for a CBZ archive with K image entries cbz_open reports
\* total_images = K, and cbz_get_image(i) is idempotent: the first
\* successful call for i extracts entry i to the temp directory, and every
\* later call for i returns the same path without extracting again.
C13_CbzGetImageIdempotent ==
    /\ [](pc = "opened" /\ opened.type = "SOURCE_CBZ"
            => opened.handle.total_images = Len(ImageEntries))
    /\ [][ (GetImage /\ opened.type = "SOURCE_CBZ")
           => LET i == got'.index
                  path == output_path_of(opened.handle, i)
              IN /\ (got'.ok /\ i \notin got.done)
                        => got'.extracted /\ got'.out_path = path
                 /\ i \in got.done
                        => /\ got'.ok
                           /\ ~got'.extracted
                           /\ got'.out_path = path
                           /\ tmpfs' = tmpfs ]_vars

\* ------------------------------------------------------------------ C14
\* The names in page-index order: the paths of a directory, the entry names
\* of a CBZ or CBR.
PageNames ==
    IF opened.type = "SOURCE_DIRECTORY" THEN opened.paths
    ELSE opened.handle.entry_names

\* The length of the longest common prefix of a and b.
CommonPrefix(a, b) ==
    CHOOSE n \in 0..Min(Len(a), Len(b)) :
        /\ \A p \in 1..n : a[p] = b[p]
        /\ n = Min(Len(a), Len(b)) \/ a[n + 1] # b[n + 1]

\* The digit run of s around position p + 1, given that what precedes
\* position p + 1 is shared: from the first digit of the run to its last.
RunStart(s, p) ==
    CHOOSE n \in 0..p :
        /\ \A q \in (n + 1)..p : isdigit(s[q])
        /\ n = 0 \/ ~isdigit(s[n])

RunEnd(s, from) ==
    CHOOSE n \in from..Len(s) :
        /\ \A q \in (from + 1)..n : isdigit(s[q])
        /\ n = Len(s) \/ ~isdigit(s[n + 1])

RECURSIVE NumberOf(_)
NumberOf(digits) ==
    IF digits = <<>> THEN 0
    ELSE 10 * NumberOf(SubSeq(digits, 1, Len(digits) - 1))
         + (Byte(digits[Len(digits)]) - Byte("0"))

\* a and b differ only in one embedded digit run, and the run of a is the
\* smaller number.
SmallerRun(a, b) ==
    LET start == RunStart(a, CommonPrefix(a, b))
        enda == RunEnd(a, start)
        endb == RunEnd(b, start)
    IN /\ a # b
       /\ enda > start
       /\ endb > start
       /\ SubSeq(a, enda + 1, Len(a)) = SubSeq(b, endb + 1, Len(b))
       /\ NumberOf(SubSeq(a, start + 1, enda))
              < NumberOf(SubSeq(b, start + 1, endb))

\* C14: page indices follow the natural order of the entry names: of two
\* names that differ only in an embedded digit run, the one with the
\* smaller number has the smaller page index (page2 before page10).
C14_NaturalPageOrder ==
    (pc = "opened" /\ opened.type # "SOURCE_PDF") =>
        \A i, j \in DOMAIN PageNames :
            SmallerRun(PageNames[i], PageNames[j]) => i < j

\* ------------------------------------------------------------------ C20
\* POSIX single quoting: the value between single quotes, each embedded
\* single quote written as quote, backslash, quote, quote.
SingleQuoted(value) ==
    LET Piece(c) == IF c = "'" THEN <<"'", "\\", "'", "'">> ELSE <<c>>
        pieces == [p \in 1..Len(value) |-> Piece(value[p])]
    IN <<"'">> \o Flatten(pieces) \o <<"'">>

\* C20: every path or entry name the CBR loader puts into a shell command
\* (archive path, entry name, temp directory, directory to create) is
\* written as the single-quoted argument escape_shell_arg produces; no such
\* value reaches the shell in another form.
C20_CbrShellArgumentsEscaped ==
    opened.type = "SOURCE_CBR" =>
        \A k \in DOMAIN shell :
            \A v \in DOMAIN shell[k].values :
                /\ shell[k].texts[v] = escape_shell_arg(shell[k].values[v])
                /\ escape_shell_arg(shell[k].values[v])
                       = SingleQuoted(shell[k].values[v])

\* --------------------------------------------- specification, the decoder
InitCrop ==
    /\ ViewerIdle
    /\ LoaderIdle
    /\ surface \in Surfaces
    /\ crop_rect = NoRect
    /\ EscapeIdle

\* create_texture on the decoded surface, up to the texture it creates.
CreateTexture ==
    /\ pc = "init"
    /\ pc' = "cropped"
    /\ crop_rect' = create_texture_crop_rect(surface)
    /\ UNCHANGED <<source, fault, ticks, event, trail, viewer, pviewer,
                   loader_vars, surface, escape_vars>>

NextCrop == CreateTexture

SpecCrop == InitCrop /\ [][NextCrop]_vars

\* ------------------------------------------------------------------ C15
\* The white margin on each side of the content is at least n pixels wide.
MarginAtLeast(s, n) ==
    /\ s.content.left >= n
    /\ s.w - 1 - s.content.right >= n
    /\ s.content.top >= n
    /\ s.h - 1 - s.content.bottom >= n

\* Each boundary column of the content has at least 3 dark pixels among the
\* rows the scans sample, each boundary row among the sampled columns.
SampledContent(s, rect) ==
    /\ \A x \in {s.content.left, s.content.right} : column_has_content(s, x)
    /\ \A y \in {s.content.top, s.content.bottom} :
           row_has_content(s, y, rect.x, rect.x + rect.w - 1)

\* The edges of the rectangle are the first content column and row met from
\* each side.
Tight(s, rect) ==
    /\ rect.x = s.content.left
    /\ rect.x + rect.w - 1 = s.content.right
    /\ rect.y = s.content.top
    /\ rect.y + rect.h - 1 = s.content.bottom

Places(m, p) ==
    Cardinality({i \in 1..Len(Flatten(Listing(m))) : Flatten(Listing(m))[i] = p})

\* C21: in every state reached by navigation, split and merge commands on
\* an N-page source, each page index 0..N-1 is in exactly one slot of
\* exactly one view.
C21_NoPageDropped ==
    pc = "running" =>
        \A p \in 0..(viewer.image_count - 1) : Places(viewer, p) = 1

\* ------------------------------------------------------------------ C22
\* C22: in every reachable state view_count is the number of nodes reached
\* from first_view through next links.
C22_ViewCountIsLength ==
    pc = "running" => viewer.view_count = Len(ViewNodes(viewer))

\* ------------------------------------------------------------------ C23
\* The pages of the current view and of the views next to it.
Neighbourhood(m) ==
    page_set(m, m.current_view_node)
    \cup page_set(m, PrevOfCurrent(m))
    \cup page_set(m, NextOfCurrent(m))

\* C23: in every state reached by navigation, go-to-first/last, split and
\* merge commands, every resident page belongs to the current view or to a
\* view adjacent to it.
C23_ResidentNearCursor ==
    pc = "running" => Resident(viewer) \subseteq Neighbourhood(viewer)

\* ------------------------------------------------------------------ C25
\* Every node is met at most once along the next links.
Acyclic(m) ==
    /\ Len(ViewNodes(m)) <= m.brk
    /\ \A i, j \in 1..Len(ViewNodes(m)) :
           ViewNodes(m)[i] = ViewNodes(m)[j] => i = j

\* C25: the view list is a well-formed doubly linked list in every
\* reachable state: first_view has no predecessor, n.next.prev = n and
\* n.prev.next = n wherever the link exists, and the list is finite and
\* acyclic.
C25_WellFormedList ==
    pc \in {"loaded", "running"} =>
        /\ viewer.first_view # NULL => viewer.nodes[viewer.first_view].prev = NULL
        /\ Acyclic(viewer)
        /\ \A k \in 1..Len(ViewNodes(viewer)) :
               LET n == ViewNodes(viewer)[k]
               IN /\ viewer.nodes[n].next # NULL
                       => viewer.nodes[viewer.nodes[n].next].prev = n
                  /\ viewer.nodes[n].prev # NULL
                       => viewer.nodes[viewer.nodes[n].prev].next = n

\* A view was split and a view was merged away: the list has a node made by
\* create_view_node after the load and is shorter than the page count.
C25_Witness ==
    /\ pc = "running"
    /\ viewer.brk > viewer.image_count
    /\ event = "SDLK_2"
    /\ Len(ViewNodes(viewer)) < viewer.image_count
    /\ Len(ViewNodes(viewer)) > 1

\* ------------------------------------------------------------------ C24
\* C24: every load_image call succeeding, after the initial load of
\* comic_viewer_run and after each completed command (next, previous, Home,
\* End, split, merge, enhancement toggle) every page of the current view is
\* resident.
C24_CurrentViewResident ==
    (pc = "running" /\ fault = NoFault)
    => page_set(viewer, viewer.current_view_node) \subseteq Resident(viewer)

\* End was pressed on a two-page view while view_count was stale.
C24_Witness ==
    /\ pc = "running"
    /\ fault = NoFault
    /\ event = "SDLK_END"
    /\ viewer.view_count # Len(ViewNodes(viewer))
    /\ viewer.nodes[viewer.current_view_node].count = 2
    /\ viewer.enhancement_enabled

\* ------------------------------------------------------------------ C29
\* C29: after the E key toggled enhancement_enabled, every resident page was
\* decoded under the current enhancement setting.
C29_ResidentDecodedAsSet ==
    (pc = "running" /\ fault = NoFault)
    => \A i \in Resident(viewer) :
           viewer.images[i].enhanced = viewer.enhancement_enabled

\* ------------------------------------------------------------------ C26
\* C26: after a successful load of any source type image_count is at most
\* MAX_IMAGES, for archives with more than MAX_IMAGES image entries as well
\* as for directories.
C26_ImageCountWithinCapacity ==
    pc = "opened" => opened.image_count <= MAX_IMAGES

\* ------------------------------------------------------------------ C27
\* C27: a cbz_get_image(i) that returns false leaves the extraction state
\* unchanged, and a call never reports success by reusing a file that no
\* successful call for i has written.
C27_FailedGetLeavesNoFile ==
    [][ (GetImage /\ opened.type = "SOURCE_CBZ")
        => /\ ~got'.ok => tmpfs' = tmpfs
           /\ (got'.ok /\ ~got'.extracted) => got'.index \in got.done ]_vars

\* ------------------------------------------ specification, the escaping
InitEscape ==
    /\ ViewerIdle
    /\ LoaderIdle
    /\ DecoderIdle
    /\ arg \in Args
    /\ buffer = NoBuffer

\* One call of escape_shell_arg(arg).
EscapeShellArg ==
    /\ pc = "init"
    /\ pc' = "escaped"
    /\ buffer' = [size |-> escape_shell_arg_size(arg),
                  bytes |-> escape_shell_arg_writes(arg)]
    /\ UNCHANGED <<source, fault, ticks, event, trail, viewer, pviewer,
                   loader_vars, decoder_vars, arg>>

NextEscape == EscapeShellArg

SpecEscape == InitEscape /\ [][NextEscape]_vars

\* ------------------------------------------------------------------ C28
\* C28: for every input string of length len, with any number of single
\* quotes, the number of bytes escape_shell_arg writes, the terminating NUL
\* included, is at most the 2*len + 3 it allocated.
C28_WritesWithinBuffer ==
    pc = "escaped" => Len(buffer.bytes) <= buffer.size

\* ------------------------------------------------------------------ C30
\* C30: for every decoded image of width w >= 1 and height h >= 1 the crop
\* rectangle is non-empty and lies inside the image, and when w > 101
\* (resp. h > 101) the cropped width (resp. height) is at least 101 pixels,
\* an entirely white page included.
C30_CropInsideAndWide ==
    (pc = "cropped" /\ surface.w >= 1 /\ surface.h >= 1)
    => LET left == crop_rect.x
           right == crop_rect.x + crop_rect.w - 1
           top == crop_rect.y
           bottom == crop_rect.y + crop_rect.h - 1
       IN /\ 0 <= left /\ left <= right /\ right <= surface.w - 1
          /\ 0 <= top /\ top <= bottom /\ bottom <= surface.h - 1
          /\ surface.w > MinSpan + 1 => crop_rect.w >= MinSpan + 1
          /\ surface.h > MinSpan + 1 => crop_rect.h >= MinSpan + 1

====
